---- MODULE Spec2Model ----
(***************************************************************************)
(* Model of neurokit2/ecg/ecg_eventrelated.py: ecg_eventrelated() and its  *)
(* two internals _ecg_eventrelated_rate() and _eventrelated_addinfo().     *)
(*                                                                         *)
(* Numbers: rate values are exact rationals <<n, d>> (d > 0, reduced) or   *)
(* NaN; floating-point rounding is not modelled.  Column names are         *)
(* sequences of characters so that Python's substring test is computed.    *)
(* Python dicts are insertion-ordered sequences of key/value items; dict   *)
(* objects live in a heap and are referred to by reference, as in Python.  *)
(***************************************************************************)
EXTENDS Integers, Sequences, FiniteSets, TLC

VARIABLES
    input,      \* the argument of ecg_eventrelated(): [kind, rows, keys, map]
    epochs,     \* the local `epochs` once it is a dict: [keys, map]
    pc,         \* position in ecg_eventrelated()
    pos,        \* number of loop iterations completed (for epoch_index in epochs)
    ecg_df,     \* the local dict `ecg_df`: sequence of [key, ref] items
    heap,       \* the dict objects created by `{}`: sequence of dicts
    stdout,     \* number of warnings printed
    error,      \* the exception that left the call, or "none"
    result,     \* the returned DataFrame, or NoTable
    u_epoch,    \* unit call: the `epoch` argument
    u_output,   \* unit call: the `output` argument as given
    u_ret,      \* unit call: outcome [status, output, warned]
    u_called    \* unit call: "off" (a run of ecg_eventrelated), "none" (not yet
                \* called), "rate" or "addinfo" (the internal that was called)

vars == <<input, epochs, pc, pos, ecg_df, heap, stdout, error, result,
          u_epoch, u_output, u_ret, u_called>>

drv_vars == <<input, epochs, pc, pos, ecg_df, heap, stdout, error, result>>
unit_vars == <<u_epoch, u_output, u_ret, u_called>>

----------------------------------------------------------------------------
(* Bounds of the model *)

\* largest number of epochs in an input mapping
MaxEpochs == 2
\* largest number of rows of a flat input table
MaxRows == 2
\* number of sample times after the event (times 1 .. MaxPost)
MaxPost == 2

----------------------------------------------------------------------------
(* Sequences *)

Range(s) == { s[k] : k \in 1..Len(s) }

RECURSIVE SelectPos(_, _, _)
\* the items of s at the positions k (in order) where mask[k] holds
SelectPos(s, mask, k) ==
    IF k > Len(s) THEN <<>>
    ELSE (IF mask[k] THEN <<s[k]>> ELSE <<>>) \o SelectPos(s, mask, k + 1)

RECURSIVE SumSeq(_)
SumSeq(s) == IF s = <<>> THEN 0 ELSE Head(s) + SumSeq(Tail(s))

\* sequences over S of length 0..n
SeqUpTo(S, n) == UNION { [1..k -> S] : k \in 0..n }

\* the members of a finite set of integers in ascending order
RECURSIVE SortedSeq(_)
SortedSeq(S) ==
    IF S = {} THEN <<>>
    ELSE LET m == CHOOSE x \in S : \A y \in S : x <= y
         IN <<m>> \o SortedSeq(S \ {m})

----------------------------------------------------------------------------
(* Exact rationals and NaN, standing for the float64 values of numpy *)

Abs(x) == IF x < 0 THEN -x ELSE x

RECURSIVE Gcd(_, _)
Gcd(a, b) == IF b = 0 THEN a ELSE Gcd(b, a % b)

\* the reduced fraction n/d, d > 0
Rat(n, d) ==
    LET g == Gcd(Abs(n), d)
    IN IF g = 0 THEN <<0, 1>> ELSE <<n \div g, d \div g>>

RatSub(a, b) == Rat(a[1] * b[2] - b[1] * a[2], a[2] * b[2])
RatLeq(a, b) == a[1] * b[2] <= b[1] * a[2]

\* a float: [nan, q]; q is meaningful only when nan is FALSE
Float(q) == [nan |-> FALSE, q |-> q]
NaN == [nan |-> TRUE, q |-> <<0, 1>>]
FInt(n) == Float(<<n, 1>>)

\* a - b in float arithmetic: NaN is absorbing
FSub(a, b) == IF a.nan \/ b.nan THEN NaN ELSE Float(RatSub(a.q, b.q))

\* np.max / np.min of a non-empty array of finite values
np_max(a) == CHOOSE v \in Range(a) : \A w \in Range(a) : w <= v
np_min(a) == CHOOSE v \in Range(a) : \A w \in Range(a) : v <= w

\* np.mean: NaN (with a warning) on an empty array
np_mean(a) == IF Len(a) = 0 THEN NaN ELSE Float(Rat(SumSeq(a), Len(a)))

\* np.argmax / np.argmin: the first position holding the extreme (1-based here)
np_argmax(a) == CHOOSE k \in 1..Len(a) :
                    /\ a[k] = np_max(a)
                    /\ \A j \in 1..(k - 1) : a[j] /= np_max(a)
np_argmin(a) == CHOOSE k \in 1..Len(a) :
                    /\ a[k] = np_min(a)
                    /\ \A j \in 1..(k - 1) : a[j] /= np_min(a)

----------------------------------------------------------------------------
(* Values stored in a feature record.  Every value has the same shape:    *)
(*   tag  "float" | "time" | "str" | "coef" | "r2"                        *)
(*   f    the float, for "float"                                          *)
(*   n    the index value, for "time"; the coefficient number for "coef"  *)
(*   s    the string, for "str"                                           *)
(*   x, y the arguments of the fit, for "coef" and "r2"                   *)

Val(tag, f, n, s, x, y) == [tag |-> tag, f |-> f, n |-> n, s |-> s, x |-> x, y |-> y]
VFloat(f) == Val("float", f, 0, "", <<>>, <<>>)
VTime(t) == Val("time", NaN, t, "", <<>>, <<>>)
VStr(s) == Val("str", NaN, 0, s, <<>>, <<>>)

\* the missing-value marker of a table cell
VMissing == VFloat(NaN)

----------------------------------------------------------------------------
(* Python dicts: insertion-ordered sequences of [k, v] items, keys unique *)

EmptyDict == <<>>
DictKeys(d) == [j \in 1..Len(d) |-> d[j].k]
DictHas(d, key) == \E j \in 1..Len(d) : d[j].k = key
DictGet(d, key) == d[CHOOSE j \in 1..Len(d) : d[j].k = key].v

\* d[key] = v: an existing key keeps its place, a new key goes last
DictSet(d, key, v) ==
    IF DictHas(d, key)
    THEN [j \in 1..Len(d) |-> IF d[j].k = key THEN [k |-> key, v |-> v] ELSE d[j]]
    ELSE Append(d, [k |-> key, v |-> v])

----------------------------------------------------------------------------
(* Column names, as character sequences *)

ECG_Rate == <<"E", "C", "G", "_", "R", "a", "t", "e">>
ECG_Rate_Raw == ECG_Rate \o <<"_", "R", "a", "w">>
ECG_Clean == <<"E", "C", "G", "_", "C", "l", "e", "a", "n">>
RSP_Rate == <<"R", "S", "P", "_", "R", "a", "t", "e">>
Label == <<"L", "a", "b", "e", "l">>
Condition == <<"C", "o", "n", "d", "i", "t", "i", "o", "n">>

\* Python's `sub in s` on strings
StrContains(sub, s) ==
    \E k \in 0..(Len(s) - Len(sub)) : SubSeq(s, k + 1, k + Len(sub)) = sub

(* An epoch (a DataFrame):                                                 *)
(*   columns    the column names, in order                                 *)
(*   index      the index values (time relative to the event)              *)
(*   int_index  TRUE for an integer-dtype index, FALSE for a float one     *)
(*   rate       the values of column ECG_Rate, when it is a column         *)
(*   label      the values of column Label, when it is a column            *)
(*   condition  the values of column Condition, when it is a column        *)
Epoch(columns, index, int_index, rate, label, condition) ==
    [columns |-> columns, index |-> index, int_index |-> int_index,
     rate |-> rate, label |-> label, condition |-> condition]

HasColumn(epoch, name) == name \in Range(epoch.columns)

----------------------------------------------------------------------------
(* The field names of the feature record *)

RateStatFields == {"ECG_Rate_Max", "ECG_Rate_Min", "ECG_Rate_Mean",
                   "ECG_Rate_Max_Time", "ECG_Rate_Min_Time"}
RateTrendFields == {"ECG_Rate_Trend_Quadratic", "ECG_Rate_Trend_Linear",
                    "ECG_Rate_Trend_R2"}
RateFields == RateStatFields \cup RateTrendFields
InfoFields == {"Label", "Condition"}

----------------------------------------------------------------------------
(* _ecg_eventrelated_rate(epoch, output) *)

\* variant of RateColumnCheck: any column name containing "ECG" passes
RateColumnCheck_ECG(epoch) ==
    \E j \in 1..Len(epoch.columns) : StrContains(<<"E", "C", "G">>, epoch.columns[j])

\* line 116: some column name contains "ECG_Rate"
RateColumnCheck(epoch) ==
    \E j \in 1..Len(epoch.columns) : StrContains(ECG_Rate, epoch.columns[j])

\* np.min(epoch.index.values), for a non-empty index
IndexMin(epoch) == np_min(epoch.index)

\* line 122: which branch computes the baseline
PreEventBranch(epoch) == IndexMin(epoch) <= 0

\* variant of BaselineMask: the event sample itself left out of the baseline
BaselineMask_Strict(epoch) == [k \in 1..Len(epoch.index) |-> epoch.index[k] < 0]

\* epoch.index <= 0, as a boolean mask (line 123)
BaselineMask(epoch) == [k \in 1..Len(epoch.index) |-> epoch.index[k] <= 0]

\* epoch.index > 0, as a boolean mask (lines 124, 125, 129)
PostEventMask(epoch) == [k \in 1..Len(epoch.index) |-> epoch.index[k] > 0]

\* epoch.index > np.min(epoch.index), as a boolean mask (line 128)
AfterMinMask(epoch) ==
    [k \in 1..Len(epoch.index) |-> epoch.index[k] > IndexMin(epoch)]

(* epoch["ECG_Rate"][m:m] with m = np.min(epoch.index.values) (line 127): *)
(* a slice with integer bounds on an integer index is positional, so it   *)
(* is empty; with float bounds on a float index it is by label and        *)
(* includes both ends.                                                    *)
MinSlice(epoch) ==
    IF epoch.int_index THEN <<>>
    ELSE SelectPos(epoch.rate,
                   [k \in 1..Len(epoch.index) |-> epoch.index[k] = IndexMin(epoch)], 1)

Baseline(epoch) ==
    IF PreEventBranch(epoch)
    THEN SelectPos(epoch.rate, BaselineMask(epoch), 1)
    ELSE MinSlice(epoch)

Signal(epoch) ==
    IF PreEventBranch(epoch)
    THEN SelectPos(epoch.rate, PostEventMask(epoch), 1)
    ELSE SelectPos(epoch.rate, AfterMinMask(epoch), 1)

\* the local `index`: the same expression in both branches
FeatureIndex(epoch) == SelectPos(epoch.index, PostEventMask(epoch), 1)

\* variant of RateMean: the baseline is not subtracted from the mean
RateMean_NoBaseline(signal, baseline) == np_mean(signal)

\* lines 132-134
RateMax(signal, baseline) == FSub(FInt(np_max(signal)), np_mean(baseline))
RateMin(signal, baseline) == FSub(FInt(np_min(signal)), np_mean(baseline))
RateMean(signal, baseline) == FSub(np_mean(signal), np_mean(baseline))

\* lines 137-138
RateMaxTime(index, signal) == index[np_argmax(signal)]
RateMinTime(index, signal) == index[np_argmin(signal)]

\* signal - np.mean(baseline), elementwise
Deviations(signal, baseline) ==
    [k \in 1..Len(signal) |-> FSub(FInt(signal[k]), np_mean(baseline))]

\* np.polyfit(x, y, 2) raises TypeError on an empty x and on unequal lengths
PolyfitRaises(x, y) == Len(x) = 0 \/ Len(x) /= Len(y)

(* The fitted values are kept as terms over the arguments of the fit:     *)
(* coefs[0], coefs[1] of np.polyfit(x, y, 2) and fit_r2 of y against the  *)
(* fitted polynomial.                                                      *)
TrendCoef(c, x, y) == Val("coef", NaN, c, "", x, y)
TrendR2(x, y) == Val("r2", NaN, 3, "", x, y)

\* lines 132-138: the five statistics, assigned in this order
SetRateStats(output, index, signal, baseline) ==
    LET o1 == DictSet(output, "ECG_Rate_Max", VFloat(RateMax(signal, baseline)))
        o2 == DictSet(o1, "ECG_Rate_Min", VFloat(RateMin(signal, baseline)))
        o3 == DictSet(o2, "ECG_Rate_Mean", VFloat(RateMean(signal, baseline)))
        o4 == DictSet(o3, "ECG_Rate_Max_Time", VTime(RateMaxTime(index, signal)))
    IN DictSet(o4, "ECG_Rate_Min_Time", VTime(RateMinTime(index, signal)))

\* lines 143-150
SetRateTrend(output, index, signal, baseline) ==
    LET y == Deviations(signal, baseline)
        o1 == DictSet(output, "ECG_Rate_Trend_Quadratic", TrendCoef(0, index, y))
        o2 == DictSet(o1, "ECG_Rate_Trend_Linear", TrendCoef(1, index, y))
    IN DictSet(o2, "ECG_Rate_Trend_R2", TrendR2(index, y))

Outcome(status, output, warned) ==
    [status |-> status, output |-> output, warned |-> warned]

(* The call's outcome: status "ok" (returned) or the exception raised,    *)
(* the state of the dict `output` when the call ends, and whether the     *)
(* warning was printed.                                                   *)
_ecg_eventrelated_rate(epoch, output) ==
    IF ~RateColumnCheck(epoch) THEN Outcome("ok", output, TRUE)
    ELSE IF Len(epoch.index) = 0 THEN Outcome("ValueError", output, FALSE)
    ELSE IF ~HasColumn(epoch, ECG_Rate) THEN Outcome("KeyError", output, FALSE)
    ELSE LET baseline == Baseline(epoch)
             signal == Signal(epoch)
             index == FeatureIndex(epoch)
         IN IF Len(signal) = 0 THEN Outcome("ValueError", output, FALSE)
            ELSE LET stats == SetRateStats(output, index, signal, baseline)
                 IN IF PolyfitRaises(index, Deviations(signal, baseline))
                    THEN Outcome("TypeError", stats, FALSE)
                    ELSE Outcome("ok", SetRateTrend(stats, index, signal, baseline),
                                 FALSE)

----------------------------------------------------------------------------
(* _eventrelated_addinfo(epoch, output) *)

\* variant of OneDistinct: any non-empty column passes
OneDistinct_NonEmpty(values) == Cardinality(Range(values)) >= 1

\* len(set(column)) == 1
OneDistinct(values) == Cardinality(Range(values)) = 1

AddLabel(epoch, output) ==
    IF HasColumn(epoch, Label) /\ OneDistinct(epoch.label)
    THEN DictSet(output, "Label", VStr(epoch.label[1]))
    ELSE output

AddCondition(epoch, output) ==
    IF HasColumn(epoch, Condition) /\ OneDistinct(epoch.condition)
    THEN DictSet(output, "Condition", VStr(epoch.condition[1]))
    ELSE output

_eventrelated_addinfo(epoch, output) ==
    Outcome("ok", AddCondition(epoch, AddLabel(epoch, output)), FALSE)

----------------------------------------------------------------------------
(* pd.DataFrame.from_dict(ecg_df, orient="index") on a dict of dicts *)

RECURSIVE Unique(_, _)
\* the items of `items` not in `seen`, each once, in order, after `seen`
Unique(items, seen) ==
    IF items = <<>> THEN seen
    ELSE IF Head(items) \in Range(seen) THEN Unique(Tail(items), seen)
    ELSE Unique(Tail(items), Append(seen, Head(items)))

RECURSIVE Flatten(_)
Flatten(lists) == IF lists = <<>> THEN <<>> ELSE Head(lists) \o Flatten(Tail(lists))

\* the items of the sequences of `lists`, each once, in order of first appearance
OrderedUnion(lists) == Unique(Flatten(lists), <<>>)

(* _from_nested_dict: the records turned inside out, {column: {key: value}}. *)
(* The columns, in order of first appearance over the records.               *)
NestedColumns(data) ==
    OrderedUnion([j \in 1..Len(data) |-> DictKeys(data[j].rec)])

\* the keys of the inner dict of column `col`: the records that hold it
NestedKeys(data, col) ==
    SelectPos([j \in 1..Len(data) |-> data[j].key],
              [j \in 1..Len(data) |-> DictHas(data[j].rec, col)], 1)

(* The row labels: the union of the inner dicts' keys, unsorted, in order *)
(* of first appearance over the columns.                                   *)
TableIndex(data) ==
    LET cols == NestedColumns(data)
    IN OrderedUnion([c \in 1..Len(cols) |-> NestedKeys(data, cols[c])])

RecordOf(data, key) == data[CHOOSE j \in 1..Len(data) : data[j].key = key].rec

\* data: sequence of [key, rec]
DataFrame_from_dict(data) ==
    LET cols == NestedColumns(data)
        idx == TableIndex(data)
    IN [index |-> idx,
        columns |-> cols,
        cells |-> [r \in 1..Len(idx) |->
                     [c \in 1..Len(cols) |->
                        IF DictHas(RecordOf(data, idx[r]), cols[c])
                        THEN DictGet(RecordOf(data, idx[r]), cols[c])
                        ELSE VMissing]]]

\* the value of `result` while nothing has been returned
NoTable == [index |-> <<>>, columns |-> <<>>, cells |-> <<>>]

----------------------------------------------------------------------------
(* _df_to_epochs(flat table): one epoch per identifier of the table, in  *)
(* order of first appearance, each with the rows of that identifier in    *)
(* table order, indexed by their time; all columns are kept.  A row of    *)
(* the flat table is [label, time, rate].                                 *)

RowLabels(rows) == Unique([k \in 1..Len(rows) |-> rows[k].label], <<>>)

RowsOf(rows, key) ==
    SelectPos(rows, [k \in 1..Len(rows) |-> rows[k].label = key], 1)

_df_to_epochs(rows) ==
    LET keys == RowLabels(rows)
    IN [j \in 1..Len(keys) |->
          LET mine == RowsOf(rows, keys[j])
          IN [key |-> keys[j],
              epoch |-> Epoch(<<ECG_Rate, Label>>,
                              [k \in 1..Len(mine) |-> mine[k].time],
                              FALSE,
                              [k \in 1..Len(mine) |-> mine[k].rate],
                              [k \in 1..Len(mine) |-> mine[k].label],
                              <<>>)]]

----------------------------------------------------------------------------
(* ecg_eventrelated(epochs) *)

\* variant of NewDict: one dict object created once and used for every epoch
NewDict_Shared(h) ==
    IF Len(h) = 0 THEN [heap |-> Append(h, EmptyDict), ref |-> 1]
    ELSE [heap |-> h, ref |-> 1]

\* `{}`: a new dict object on the heap, and the reference to it
NewDict(h) == [heap |-> Append(h, EmptyDict), ref |-> Len(h) + 1]

\* ecg_df[key] = ref
BindRecord(df, key, ref) ==
    IF \E j \in 1..Len(df) : df[j].key = key
    THEN [j \in 1..Len(df) |-> IF df[j].key = key THEN [key |-> key, ref |-> ref]
                                                   ELSE df[j]]
    ELSE Append(df, [key |-> key, ref |-> ref])

\* the records of ecg_df, dereferenced: sequence of [key, rec]
Records(df, h) == [j \in 1..Len(df) |-> [key |-> df[j].key, rec |-> h[df[j].ref]]]

\* variant of IsDict: the type of the input is not checked
IsDict_Unchecked(kind) == TRUE

\* isinstance(epochs, pd.DataFrame) and isinstance(epochs, dict), on the type name
IsDataFrame(kind) == kind = "DataFrame"
IsDict(kind) == kind = "dict"

\* lines 61-72: the sanity checks, then ecg_df = {}
Sanity ==
    /\ pc = "start"
    /\ LET given == IF IsDataFrame(input.kind)
                    THEN [kind |-> "dict", items |-> _df_to_epochs(input.rows)]
                    ELSE [kind |-> input.kind, items |-> input.items]
       IN IF ~IsDict(given.kind)
          THEN /\ epochs' = epochs
               /\ pc' = "raised"
               /\ error' = "ValueError"
          ELSE /\ epochs' = given.items
               /\ pc' = "loop"
               /\ error' = error
    /\ ecg_df' = <<>>
    /\ UNCHANGED <<input, pos, heap, stdout, result>>
    /\ UNCHANGED unit_vars

\* lines 73-83: one iteration of the loop over the epochs
LoopBody ==
    /\ pc = "loop"
    /\ pos < Len(epochs)
    /\ LET key == epochs[pos + 1].key
           epoch == epochs[pos + 1].epoch
           new == NewDict(heap)
           r == _ecg_eventrelated_rate(epoch, new.heap[new.ref])
           h1 == [new.heap EXCEPT ![new.ref] = r.output]
           a == _eventrelated_addinfo(epoch, h1[new.ref])
           h2 == [h1 EXCEPT ![new.ref] = a.output]
       IN /\ ecg_df' = BindRecord(ecg_df, key, new.ref)
          /\ stdout' = stdout + (IF r.warned THEN 1 ELSE 0)
          /\ IF r.status /= "ok"
             THEN /\ heap' = h1
                  /\ pc' = "raised"
                  /\ error' = r.status
                  /\ pos' = pos
             ELSE /\ heap' = h2
                  /\ pc' = pc
                  /\ error' = error
                  /\ pos' = pos + 1
    /\ UNCHANGED <<input, epochs, result>>
    /\ UNCHANGED unit_vars

\* lines 85-87: the records turned into the returned table
Assemble ==
    /\ pc = "loop"
    /\ pos = Len(epochs)
    /\ result' = DataFrame_from_dict(Records(ecg_df, heap))
    /\ pc' = "done"
    /\ UNCHANGED <<input, epochs, pos, ecg_df, heap, stdout, error>>
    /\ UNCHANGED unit_vars

----------------------------------------------------------------------------
(* Inputs *)

\* epoch identifiers, as epochs_create() names them
IdNames == <<"1", "2", "3", "4">>
Ids == { IdNames[k] : k \in 1..MaxEpochs }

PreTimes == {-1, 0}
PostTimes == 1..MaxPost
Times == PreTimes \cup PostTimes

RateValues == {60, 62, 65, 70, 75, 80}

\* values of a metadata column with n rows: constant, or changing after row 1
MetaColumn(pattern, n, first, other) ==
    [k \in 1..n |-> IF pattern = "varying" /\ k > 1 THEN other ELSE first]

NoUnitEpoch == Epoch(<<>>, <<>>, FALSE, <<>>, <<>>, <<>>)
NoOutcome == Outcome("none", EmptyDict, FALSE)

(* Epochs of a run of ecg_eventrelated(): a few sample windows, with the  *)
(* rate column present, absent, or present only under a longer name, and  *)
(* each with no, constant or changing metadata.                           *)
DriverSamples ==
    { [index |-> <<0>>, rate |-> <<60>>],
      [index |-> <<-1, 0, 1, 2>>, rate |-> <<60, 62, 70, 65>>],
      [index |-> <<-1, 0, 1, 2>>, rate |-> <<60, 62, 80, 75>>],
      [index |-> <<1, 2>>, rate |-> <<60, 70>>] }

DriverSignals ==
    { [columns |-> <<ECG_Rate>>, index |-> s.index, rate |-> s.rate] : s \in DriverSamples }
    \cup { [columns |-> <<ECG_Clean>>, index |-> <<0, 1>>, rate |-> <<>>],
           [columns |-> <<ECG_Rate_Raw>>, index |-> <<0, 1>>, rate |-> <<>>] }

DriverMeta ==
    { [label |-> "absent", condition |-> "absent"],
      [label |-> "const", condition |-> "absent"],
      [label |-> "varying", condition |-> "const"] }

MetaColumns(m) ==
    (IF m.label = "absent" THEN <<>> ELSE <<Label>>)
    \o (IF m.condition = "absent" THEN <<>> ELSE <<Condition>>)

DriverEpochs ==
    { Epoch(s.columns \o MetaColumns(m), s.index, FALSE, s.rate,
            IF m.label = "absent" THEN <<>>
            ELSE MetaColumn(m.label, Len(s.index), "A", "B"),
            IF m.condition = "absent" THEN <<>>
            ELSE MetaColumn(m.condition, Len(s.index), "X", "Y"))
      : s \in DriverSignals, m \in DriverMeta }

\* the key orders of a mapping: sequences of distinct identifiers
KeyOrders ==
    { ks \in SeqUpTo(Ids, MaxEpochs) :
        \A a, b \in 1..Len(ks) : a /= b => ks[a] /= ks[b] }

\* a mapping with the keys ks, in this order, and the epochs es
DictInput(ks, es) ==
    [kind |-> "dict",
     items |-> [j \in 1..Len(ks) |-> [key |-> ks[j], epoch |-> es[j]]],
     rows |-> <<>>]

FlatRows == [label : Ids, time : {0, 1}, rate : {60, 70}]

\* flat tables whose rows of one epoch are in strictly increasing time order
FlatTables ==
    { rows \in SeqUpTo(FlatRows, MaxRows) :
        \A a, b \in 1..Len(rows) :
            (a < b /\ rows[a].label = rows[b].label) => rows[a].time < rows[b].time }

TableInput(rows) == [kind |-> "DataFrame", items |-> <<>>, rows |-> rows]

\* inputs that are neither a DataFrame nor a dict
OtherKinds == {"list", "NoneType"}
OtherInput(k) == [kind |-> k, items |-> <<>>, rows |-> <<>>]

----------------------------------------------------------------------------
(* Runs of ecg_eventrelated(epochs) *)

UnitIdle ==
    /\ u_epoch = NoUnitEpoch
    /\ u_output = EmptyDict
    /\ u_ret = NoOutcome
    /\ u_called = "off"

DriverIdle ==
    /\ input = OtherInput("NoneType")
    /\ epochs = <<>>
    /\ pc = "idle"
    /\ pos = 0
    /\ ecg_df = <<>>
    /\ heap = <<>>
    /\ stdout = 0
    /\ error = "none"
    /\ result = NoTable

InitDriver ==
    /\ \/ \E ks \in KeyOrders : \E es \in [1..Len(ks) -> DriverEpochs] :
              input = DictInput(ks, es)
       \/ \E rows \in FlatTables : input = TableInput(rows)
       \/ \E k \in OtherKinds : input = OtherInput(k)
    /\ epochs = <<>>
    /\ pc = "start"
    /\ pos = 0
    /\ ecg_df = <<>>
    /\ heap = <<>>
    /\ stdout = 0
    /\ error = "none"
    /\ result = NoTable
    /\ UnitIdle

----------------------------------------------------------------------------
(* Single calls of _ecg_eventrelated_rate(epoch, output) *)

\* records handed to a call: a fresh one, and one that already holds fields
GivenOutputs ==
    { EmptyDict,
      <<[k |-> "Label", v |-> VStr("old")],
        [k |-> "ECG_Rate_Max", v |-> VFloat(FInt(1))]>> }

RateColumnSets == { <<ECG_Rate>>, <<ECG_Clean>>, <<RSP_Rate>>, <<ECG_Rate_Raw>> }

\* the rate columns an epoch with these columns and n rows can hold
RateColumnsOf(cols, n) ==
    IF ECG_Rate \in Range(cols) THEN [1..n -> RateValues] ELSE {<<>>}

\* the epochs have a strictly increasing index drawn from Times
InitRate ==
    /\ DriverIdle
    /\ \E cols \in RateColumnSets, S \in SUBSET Times, ii \in BOOLEAN :
          \E rate \in RateColumnsOf(cols, Cardinality(S)) :
              u_epoch = Epoch(cols, SortedSeq(S), ii, rate, <<>>, <<>>)
    /\ u_output \in GivenOutputs
    /\ u_ret = NoOutcome
    /\ u_called = "none"

CallRate ==
    /\ u_called = "none"
    /\ u_ret' = _ecg_eventrelated_rate(u_epoch, u_output)
    /\ u_called' = "rate"
    /\ UNCHANGED <<u_epoch, u_output>>
    /\ UNCHANGED drv_vars

----------------------------------------------------------------------------
(* Single calls of _eventrelated_addinfo(epoch, output) *)

LabelValues == {"A", "B"}
ConditionValues == {"X", "Y"}

\* the values a metadata column of n rows can hold, when it is a column
MetaColumnsOf(cols, name, n, values) ==
    IF name \in Range(cols) THEN [1..n -> values] ELSE {<<>>}

InitInfo ==
    /\ DriverIdle
    /\ \E n \in 0..MaxRows,
          cols \in {<<>>, <<Label>>, <<Condition>>, <<Label, Condition>>} :
          \E lab \in MetaColumnsOf(cols, Label, n, LabelValues),
             cond \in MetaColumnsOf(cols, Condition, n, ConditionValues) :
              u_epoch = Epoch(<<ECG_Rate>> \o cols, [k \in 1..n |-> k - 1], TRUE,
                              [k \in 1..n |-> 60], lab, cond)
    /\ u_output \in GivenOutputs
    /\ u_ret = NoOutcome
    /\ u_called = "none"

CallAddinfo ==
    /\ u_called = "none"
    /\ u_ret' = _eventrelated_addinfo(u_epoch, u_output)
    /\ u_called' = "addinfo"
    /\ UNCHANGED <<u_epoch, u_output>>
    /\ UNCHANGED drv_vars

----------------------------------------------------------------------------
(* Spec: a behaviour is one call of one of the three functions: a run of  *)
(* ecg_eventrelated() on an input, or a single call of one internal on an *)
(* epoch and a record.                                                    *)

Init == InitDriver \/ InitRate \/ InitInfo

Next == Sanity \/ LoopBody \/ Assemble \/ CallRate \/ CallAddinfo

Spec == Init /\ [][Next]_vars

----------------------------------------------------------------------------
(* Properties *)

\* the keys of a dict, as a set
KeySet(d) == Range(DictKeys(d))

\* the epoch has column ECG_Rate and no sample after the event
NoPostEventSamples(epoch) ==
    /\ HasColumn(epoch, ECG_Rate)
    /\ \A k \in 1..Len(epoch.index) : epoch.index[k] <= 0

\* the epoch the loop is at, when the loop has not run to its end
AtEpoch == epochs[pos + 1].epoch

\* the position of `key` in the row labels of table t
RowOf(t, key) == CHOOSE r \in 1..Len(t.index) : t.index[r] = key
ColOf(t, col) == CHOOSE c \in 1..Len(t.columns) : t.columns[c] = col
Cell(t, key, col) == t.cells[RowOf(t, key)][ColOf(t, col)]

(* C1: an epoch that has the rate column but no post-event samples does   *)
(* not make ecg_eventrelated raise: on a mapping input the call never     *)
(* ends with an exception at such an epoch, and in the returned table     *)
(* every epoch has its row, that epoch's rate fields being missing-value  *)
(* markers.                                                               *)
C1_EmptyWindowDoesNotRaise ==
    /\ (input.kind = "dict" /\ pc = "raised" /\ pos < Len(epochs))
          => ~NoPostEventSamples(AtEpoch)
    /\ (input.kind = "dict" /\ pc = "done") =>
          \A j \in 1..Len(epochs) :
              /\ epochs[j].key \in Range(result.index)
              /\ NoPostEventSamples(epochs[j].epoch) =>
                    \A f \in RateFields :
                        f \in Range(result.columns) =>
                            Cell(result, epochs[j].key, f) = VMissing

(* C2: for an epoch with the rate column whose index starts strictly      *)
(* after zero and has at least two samples, the rate extractor completes  *)
(* and returns a record holding all eight rate fields.                    *)
C2_LateEpochCompletes ==
    (/\ u_called = "rate"
     /\ HasColumn(u_epoch, ECG_Rate)
     /\ Len(u_epoch.index) >= 2
     /\ \A k \in 1..Len(u_epoch.index) : u_epoch.index[k] > 0)
    => /\ u_ret.status = "ok"
       /\ RateFields \subseteq KeySet(u_ret.output)

(* C7: for a mapping input on which the call completes, the returned      *)
(* table has exactly one row per epoch identifier, in the mapping's       *)
(* iteration order; its columns are the union of the records' keys, and   *)
(* an epoch whose record lacks a key has the missing-value marker there.  *)
C7_OneRowPerEpoch ==
    (pc = "done" /\ input.kind = "dict")
    => /\ result.index = [j \in 1..Len(input.items) |-> input.items[j].key]
       /\ Range(result.columns)
            = UNION { KeySet(heap[ecg_df[j].ref]) : j \in 1..Len(ecg_df) }
       /\ \A j \in 1..Len(ecg_df) : \A c \in Range(result.columns) :
              ecg_df[j].key \in Range(result.index) =>
                  Cell(result, ecg_df[j].key, c)
                    = IF DictHas(heap[ecg_df[j].ref], c)
                      THEN DictGet(heap[ecg_df[j].ref], c)
                      ELSE VMissing

(* C10: the rate-column check and the rate-column read agree: whenever    *)
(* some column name contains "ECG_Rate", the column named exactly         *)
(* ECG_Rate exists, so the extractor never fails on a missing column.     *)
C10_CheckAgreesWithRead ==
    u_called = "rate"
    => /\ (\E j \in 1..Len(u_epoch.columns) :
              StrContains(ECG_Rate, u_epoch.columns[j]))
             => ECG_Rate \in Range(u_epoch.columns)
       /\ u_ret.status /= "KeyError"

----------------------------------------------------------------------------
(* Properties of the rate statistics *)

RECURSIVE SumAt(_, _)
\* the sum of f over the positions of S
SumAt(f, S) ==
    IF S = {} THEN 0
    ELSE LET k == CHOOSE x \in S : TRUE IN f[k] + SumAt(f, S \ {k})

\* the record value v is the finite float num/den
IsQuotient(v, num, den) ==
    /\ v.tag = "float"
    /\ ~v.f.nan
    /\ v.f.q[1] * den = v.f.q[2] * num

(* C5: for an epoch with the rate column, at least one index value <= 0   *)
(* and at least one > 0, the record holds, with b the mean of the rates   *)
(* at index <= 0 and signal the rates at index > 0: max(signal) - b,      *)
(* min(signal) - b, mean(signal) - b, and as times of maximum and minimum *)
(* the index value of the first post-event sample holding max(signal),    *)
(* min(signal).  Index [-1, 0, 1, 2] with rates [60, 62, 70, 65] gives    *)
(* maximum deviation 9, with rates [60, 62, 80, 75] it gives 19.          *)
C5_PreEventReference ==
    (/\ u_called = "rate"
     /\ HasColumn(u_epoch, ECG_Rate)
     /\ \E k \in 1..Len(u_epoch.index) : u_epoch.index[k] <= 0
     /\ \E k \in 1..Len(u_epoch.index) : u_epoch.index[k] > 0)
    => LET pre == { k \in 1..Len(u_epoch.index) : u_epoch.index[k] <= 0 }
           post == { k \in 1..Len(u_epoch.index) : u_epoch.index[k] > 0 }
           nb == Cardinality(pre)
           ns == Cardinality(post)
           sb == SumAt(u_epoch.rate, pre)
           ss == SumAt(u_epoch.rate, post)
           hi == CHOOSE v \in { u_epoch.rate[k] : k \in post } :
                    \A k \in post : u_epoch.rate[k] <= v
           lo == CHOOSE v \in { u_epoch.rate[k] : k \in post } :
                    \A k \in post : v <= u_epoch.rate[k]
           firstAt(v) == CHOOSE k \in post :
                            /\ u_epoch.rate[k] = v
                            /\ \A j \in post : j < k => u_epoch.rate[j] /= v
           out == u_ret.output
       IN /\ u_ret.status = "ok"
          /\ RateFields \subseteq KeySet(out)
          /\ IsQuotient(DictGet(out, "ECG_Rate_Max"), hi * nb - sb, nb)
          /\ IsQuotient(DictGet(out, "ECG_Rate_Min"), lo * nb - sb, nb)
          /\ IsQuotient(DictGet(out, "ECG_Rate_Mean"), ss * nb - sb * ns, ns * nb)
          /\ DictGet(out, "ECG_Rate_Max_Time") = VTime(u_epoch.index[firstAt(hi)])
          /\ DictGet(out, "ECG_Rate_Min_Time") = VTime(u_epoch.index[firstAt(lo)])
          /\ (u_epoch.index = <<-1, 0, 1, 2>> /\ u_epoch.rate = <<60, 62, 70, 65>>)
                => DictGet(out, "ECG_Rate_Max") = VFloat(FInt(9))
          /\ (u_epoch.index = <<-1, 0, 1, 2>> /\ u_epoch.rate = <<60, 62, 80, 75>>)
                => DictGet(out, "ECG_Rate_Max") = VFloat(FInt(19))

\* the first example of C5 has been computed
C5_Witness ==
    /\ u_called = "rate"
    /\ u_epoch.columns = <<ECG_Rate>>
    /\ u_epoch.index = <<-1, 0, 1, 2>>
    /\ u_epoch.rate = <<60, 62, 70, 65>>
    /\ u_ret.status = "ok"
    /\ DictGet(u_ret.output, "ECG_Rate_Max") = VFloat(FInt(9))
    /\ DictGet(u_ret.output, "ECG_Rate_Max_Time") = VTime(1)
    /\ DictGet(u_ret.output, "ECG_Rate_Min_Time") = VTime(2)

----------------------------------------------------------------------------
(* Properties of the metadata merger *)

\* the entry of `key` is the same in dicts a and b: absent in both, or the same value
SameEntry(a, b, key) ==
    /\ DictHas(a, key) <=> DictHas(b, key)
    /\ DictHas(a, key) => DictGet(a, key) = DictGet(b, key)

\* the number of distinct values of a column
Distinct(values) == Cardinality({ values[k] : k \in 1..Len(values) })

(* C6: for Label and Condition independently: a column that exists and    *)
(* holds exactly one distinct value is copied into the record under the   *)
(* same name; a column that is missing or holds two or more distinct      *)
(* values adds nothing; no error is raised and all other fields of the    *)
(* record are left unchanged.                                             *)
C6_MetadataMerge ==
    u_called = "addinfo"
    => LET out == u_ret.output
       IN /\ u_ret.status = "ok"
          /\ (Label \in Range(u_epoch.columns) /\ Distinct(u_epoch.label) = 1)
                => /\ DictHas(out, "Label")
                   /\ DictGet(out, "Label") = VStr(u_epoch.label[1])
          /\ (Label \notin Range(u_epoch.columns) \/ Distinct(u_epoch.label) >= 2)
                => SameEntry(out, u_output, "Label")
          /\ (Condition \in Range(u_epoch.columns) /\ Distinct(u_epoch.condition) = 1)
                => /\ DictHas(out, "Condition")
                   /\ DictGet(out, "Condition") = VStr(u_epoch.condition[1])
          /\ (Condition \notin Range(u_epoch.columns)
                \/ Distinct(u_epoch.condition) >= 2)
                => SameEntry(out, u_output, "Condition")
          /\ KeySet(out) \subseteq KeySet(u_output) \cup InfoFields
          /\ \A key \in KeySet(u_output) \ InfoFields : SameEntry(out, u_output, key)

\* a constant Condition was copied while a changing Label was left out of a fresh record
C6_Witness ==
    /\ u_called = "addinfo"
    /\ u_output = EmptyDict
    /\ u_epoch.label = <<"A", "B">>
    /\ u_epoch.condition = <<"Y", "Y">>
    /\ KeySet(u_ret.output) = {"Condition"}
    /\ DictGet(u_ret.output, "Condition") = VStr("Y")

----------------------------------------------------------------------------
(* Properties of ecg_eventrelated() *)

\* no column name of the epoch contains "ECG_Rate"
NoRateColumn(epoch) ==
    \A j \in 1..Len(epoch.columns) : ~StrContains(ECG_Rate, epoch.columns[j])

\* the record bound to the j-th key of ecg_df
RecordAt(j) == heap[ecg_df[j].ref]

\* the epochs whose loop iteration has completed
Processed == 1..pos

C4_InvalidInputType ==
    /\ (pc /= "idle" /\ input.kind \notin {"DataFrame", "dict"})
          => /\ pc \in {"start", "raised"}
             /\ pc = "raised" => error = "ValueError"
             /\ pos = 0 /\ heap = <<>> /\ ecg_df = <<>> /\ stdout = 0
             /\ result = NoTable
    /\ (input.kind \in {"DataFrame", "dict"} /\ pc /= "start")
          => /\ ~(pc = "raised" /\ heap = <<>>)
             /\ input.kind = "dict" => epochs = input.items
             /\ input.kind = "DataFrame"
                   => /\ { epochs[j].key : j \in 1..Len(epochs) }
                           = { input.rows[k].label : k \in 1..Len(input.rows) }
                      /\ \A a, b \in 1..Len(epochs) :
                            a /= b => epochs[a].key /= epochs[b].key

\* a list was given and the call raised ValueError
C4_Witness ==
    /\ input.kind = "list"
    /\ pc = "raised"
    /\ error = "ValueError"

\* the record a lone epoch gets: the two internals applied to a fresh dict
AloneRecord(epoch) ==
    _eventrelated_addinfo(epoch, _ecg_eventrelated_rate(epoch, EmptyDict).output).output

(* C8: every epoch's record is local to its iteration: no two keys share  *)
(* a record object, and at any time the record of every processed epoch   *)
(* equals the record that epoch would get as the only epoch of the        *)
(* collection, with metadata values taken from that epoch alone; so no    *)
(* field carries over and later iterations leave earlier records as they  *)
(* were.                                                                  *)
C8_RecordsAreLocal ==
    /\ \A i, j \in 1..Len(ecg_df) : i /= j => ecg_df[i].ref /= ecg_df[j].ref
    /\ \A j \in Processed :
          /\ ecg_df[j].key = epochs[j].key
          /\ RecordAt(j) = AloneRecord(epochs[j].epoch)
          /\ KeySet(RecordAt(j)) \subseteq RateFields \cup InfoFields
          /\ DictHas(RecordAt(j), "Label")
                => DictGet(RecordAt(j), "Label").s \in Range(epochs[j].epoch.label)
          /\ DictHas(RecordAt(j), "Condition")
                => DictGet(RecordAt(j), "Condition").s
                     \in Range(epochs[j].epoch.condition)
          /\ NoRateColumn(epochs[j].epoch) => KeySet(RecordAt(j)) \cap RateFields = {}

(* two epochs were processed: the first got rate fields and metadata, the *)
(* second, with no rate column and no metadata, an empty record            *)
C8_Witness ==
    /\ pos = 2
    /\ RateFields \cup {"Label"} \subseteq KeySet(RecordAt(1))
    /\ RecordAt(2) = EmptyDict

====
